---- MODULE Spec2Model ----
(***************************************************************************)
(* Model of python/hopsworks/usage.py: the usage-telemetry decorator       *)
(* (method_logger), its per-method call counter (MethodCounter) and the    *)
(* lazily cached environment attributes (EnvironmentAttribute), with the   *)
(* user id file ~/.hopsworks/user_id.                                      *)
(*                                                                         *)
(* Python values: None is the record None; a str is PyStr(s), where s is a *)
(* TLA+ string when the code only compares or concatenates it and a        *)
(* sequence of one-character strings when the code slices, strips or       *)
(* lower-cases it.                                                         *)
(***************************************************************************)
EXTENDS Integers, Sequences, FiniteSets, TLC

VARIABLES
    _is_enabled,        \* usage.py:134  module flag, fixed at import
    _user_id,           \* usage.py:26   _env_attr._user_id
    _backend_version,   \* usage.py:27   _env_attr._backend_version
    method_counts,      \* usage.py:101  _method_counter.method_counts (a dict)
    user_id_file,       \* ~/.hopsworks/user_id on disk
    completed,          \* history: completed wrapped calls per function since the last init
    first_id,           \* history: the id first written to the user id file
    last,               \* history: what the last operation did and returned
    steps,              \* decorated calls made in this behaviour (bounded by MaxCalls)
    pc, tmp, tcall      \* threads of the concurrent specification

vars == <<_is_enabled, _user_id, _backend_version, method_counts,
          user_id_file, completed, first_id, last, steps, pc, tmp, tcall>>

-----------------------------------------------------------------------------
(* Bounds *)

\* decorated calls per behaviour
MaxCalls == 2
\* wrapped calls begun per behaviour of the concurrent specification
MaxConcCalls == 2

\* Completed calls per function already behind the process when a behaviour starts.
StartCounts == {0, 98, 998, 9998}

Threads == {"t1", "t2"}

-----------------------------------------------------------------------------
(* Python values *)

None == [t |-> "None"]
PyStr(s) == [t |-> "str", v |-> s]
\* truth value of an Optional[str]: None and "" are false
Truthy(x) == x.t = "str" /\ Len(x.v) > 0

\* The decorated functions: two methods of different classes of one module that
\* share their __name__, and a third with another __name__.
Funcs ==
    { [qualname |-> "Job.run",       module |-> "hopsworks.job", name |-> "run"],
      [qualname |-> "Execution.run", module |-> "hopsworks.job", name |-> "run"],
      [qualname |-> "Job.save",      module |-> "hopsworks.job", name |-> "save"] }
NoFunc == [qualname |-> "", module |-> "", name |-> ""]

\* What a decorated function does when run: returns a value, raises an Exception
\* (with a message, possibly empty), or raises a BaseException that is no Exception.
Return(v) == [kind |-> "return", value |-> v, exc |-> None]
Raise(e) == [kind |-> "raise", value |-> None, exc |-> e]
Exc(origin, base, msg) == [t |-> "exc", origin |-> origin, base |-> base, msg |-> msg]
NoOutcome == [kind |-> "none", value |-> None, exc |-> None]
FuncOutcomes ==
    { Return(PyStr("v")),
      Raise(Exc("func", "Exception", "boom")),
      Raise(Exc("func", "Exception", "")),
      Raise(Exc("func", "BaseException", "interrupted")) }

\* random.random() draws in [0,1), as fractions num/den
Draws ==
    { [num |-> 9, den |-> 10000],   [num |-> 1, den |-> 1000],
      [num |-> 99, den |-> 10000],  [num |-> 1, den |-> 100],
      [num |-> 999, den |-> 10000], [num |-> 1, den |-> 10] }
NoDraw == [num |-> -1, den |-> 1]

\* uuid.uuid4().hex: 32 hexadecimal characters
Rep(c, n) == [i \in 1..n |-> c]
UUIDs ==
    { Rep("a", 16) \o Rep("0", 16),
      Rep("a", 15) \o <<"b">> \o Rep("1", 16) }

\* what a version source answers when queried: a version, or it fails
SourceFails == [t |-> "fail"]
SourceOutcomes == { SourceFails, PyStr("3.7.0"), PyStr("3.8.0") }

\* values of the environment variable ENABLE_HOPSWORKS_USAGE (None: not set)
EnvValues ==
    { None, PyStr(<<"t","r","u","e">>), PyStr(<<"T","r","u","e">>),
      PyStr(<<"f","a","l","s","e">>), PyStr(<<"1">>), PyStr(<<>>) }

-----------------------------------------------------------------------------
(* String helpers of the Python runtime *)

UpperCase == <<"A","E","F","L","R","S","T","U">>
LowerCase == <<"a","e","f","l","r","s","t","u">>
\* str.lower() on one character
LowerChar(c) ==
    IF \E i \in 1..Len(UpperCase) : UpperCase[i] = c
    THEN LowerCase[CHOOSE i \in 1..Len(UpperCase) : UpperCase[i] = c]
    ELSE c
\* str.lower()
lower(s) == [i \in 1..Len(s) |-> LowerChar(s[i])]

Whitespace == {" ", "\n", "\t", "\r"}
\* str.rstrip(): drop the trailing whitespace
RECURSIVE rstrip(_)
rstrip(s) ==
    IF Len(s) > 0 /\ s[Len(s)] \in Whitespace
    THEN rstrip(SubSeq(s, 1, Len(s) - 1))
    ELSE s

\* str.replace(c, ''): drop every occurrence of the character c
RECURSIVE remove_char(_, _)
remove_char(s, c) ==
    IF Len(s) = 0 THEN <<>>
    ELSE IF Head(s) = c THEN remove_char(Tail(s), c)
    ELSE <<Head(s)>> \o remove_char(Tail(s), c)

-----------------------------------------------------------------------------
(* usage.py:134-136  _is_enabled *)

\* os.getenv(name, default=d)
getenv(value, d) == IF value = None THEN d ELSE value.v

is_enabled_from(value) == lower(getenv(value, <<"t","r","u","e">>)) = <<"t","r","u","e">>

-----------------------------------------------------------------------------
(* usage.py:99-124  MethodCounter *)

_get_method_name(m) == m.module \o m.name

\* dict.get(s, 0)
dict_get(d, s) == IF s \in DOMAIN d THEN d[s] ELSE 0
\* d[s] = n
dict_set(d, s, n) == [k \in DOMAIN d \cup {s} |-> IF k = s THEN n ELSE d[k]]

\* line 106, right-hand side: the count read
add_read(counts, m) == dict_get(counts, _get_method_name(m))

\* line 106, the store of the count read, plus one
add_write_plus_two(counts, m, read) == dict_set(counts, _get_method_name(m), read + 2)

add_write(counts, m, read) == dict_set(counts, _get_method_name(m), read + 1)

add(counts, m) == add_write(counts, m, add_read(counts, m))

get_count(counts, m) == dict_get(counts, _get_method_name(m))

\* r < p/q for the draw r = num/den
Below(r, p, q) == r.num * q < p * r.den

should_sample_le(counts, m, r) ==
    LET cnt == get_count(counts, m) IN
    IF cnt <= 100 THEN TRUE
    ELSE IF cnt <= 1000 THEN Below(r, 1, 10)
    ELSE IF cnt <= 10000 THEN Below(r, 1, 100)
    ELSE Below(r, 1, 1000)

should_sample(counts, m, r) ==
    LET cnt == get_count(counts, m) IN
    IF cnt < 100 THEN TRUE
    ELSE IF cnt < 1000 THEN Below(r, 1, 10)
    ELSE IF cnt < 10000 THEN Below(r, 1, 100)
    ELSE Below(r, 1, 1000)

\* should_sample calls random.random() only past its first branch
draws_random(counts, m) == get_count(counts, m) >= 100

\* MethodCounter(): an empty dict
NewMethodCounts == [k \in {} |-> 0]

-----------------------------------------------------------------------------
(* usage.py:162-167  _generate_user_id *)

UserIdLen == 16

_generate_user_id_short(uuid_hex) == SubSeq(remove_char(uuid_hex, "-"), 1, UserIdLen - 1)

_generate_user_id(uuid_hex) == SubSeq(remove_char(uuid_hex, "-"), 1, UserIdLen)

-----------------------------------------------------------------------------
(* usage.py:57-68  EnvironmentAttribute.get_user_id *)

NoFile == [t |-> "absent"]
File(content) == [t |-> "file", v |-> content]
\* os.path.exists(user_id_file)
exists(file) == file.t = "file"

\* The evaluation of get_user_id() on the cached field uid and the file on disk.
\* uuid_hex is what uuid4 would give; io_fails says whether opening the file fails
\* (an OSError) should the call come to open it.
get_user_id_no_exists_check(uid, file, uuid_hex, io_fails) ==
    IF Truthy(uid)
    THEN [raised |-> FALSE, ret |-> uid, uid |-> uid, file |-> file, io |-> {}]
    ELSE IF io_fails
    THEN [raised |-> TRUE, ret |-> None, uid |-> uid, file |-> file, io |-> {}]
    ELSE LET id == PyStr(_generate_user_id(uuid_hex)) IN
         [raised |-> FALSE, ret |-> id, uid |-> id, file |-> File(id.v), io |-> {"write"}]

get_user_id(uid, file, uuid_hex, io_fails) ==
    IF Truthy(uid)
    THEN [raised |-> FALSE, ret |-> uid, uid |-> uid, file |-> file, io |-> {}]
    ELSE IF io_fails
    THEN [raised |-> TRUE, ret |-> None, uid |-> uid, file |-> file, io |-> {"exists"}]
    ELSE IF exists(file)
    THEN LET id == PyStr(rstrip(file.v)) IN
         [raised |-> FALSE, ret |-> id, uid |-> id, file |-> file, io |-> {"exists", "read"}]
    ELSE LET id == PyStr(_generate_user_id(uuid_hex)) IN
         [raised |-> FALSE, ret |-> id, uid |-> id, file |-> File(id.v),
          io |-> {"exists", "write"}]

\* history of one evaluation: the cached field and the file before, the value
\* returned, whether it raised
UidEval(pre_uid, pre_file, e) ==
    [called |-> TRUE, pre_uid |-> pre_uid, pre_file |-> pre_file, ret |-> e.ret,
     raised |-> e.raised]
NoUidEval ==
    [called |-> FALSE, pre_uid |-> None, pre_file |-> NoFile, ret |-> None, raised |-> FALSE]

-----------------------------------------------------------------------------
(* usage.py:78-91  EnvironmentAttribute.get_backend_version *)

\* The evaluation of get_backend_version() on the cached field bv; o1 and o2 are
\* what variable_api and hsfs_variable_api answer if they are queried.
get_backend_version_caches_failure(bv, o1, o2) ==
    IF bv # None
    THEN [raised |-> FALSE, ret |-> bv, bv |-> bv, queried |-> <<>>]
    ELSE IF o1 # SourceFails
    THEN [raised |-> FALSE, ret |-> o1, bv |-> o1, queried |-> <<"variable_api">>]
    ELSE IF o2 # SourceFails
    THEN [raised |-> FALSE, ret |-> o2, bv |-> o2,
          queried |-> <<"variable_api", "hsfs_variable_api">>]
    ELSE [raised |-> FALSE, ret |-> PyStr(""), bv |-> PyStr(""),
          queried |-> <<"variable_api", "hsfs_variable_api">>]

get_backend_version(bv, o1, o2) ==
    IF bv # None
    THEN [raised |-> FALSE, ret |-> bv, bv |-> bv, queried |-> <<>>]
    ELSE IF o1 # SourceFails
    THEN [raised |-> FALSE, ret |-> o1, bv |-> o1, queried |-> <<"variable_api">>]
    ELSE IF o2 # SourceFails
    THEN [raised |-> FALSE, ret |-> o2, bv |-> o2,
          queried |-> <<"variable_api", "hsfs_variable_api">>]
    ELSE [raised |-> FALSE, ret |-> bv, bv |-> bv,
          queried |-> <<"variable_api", "hsfs_variable_api">>]

\* what the queried sources answered, in the order they were queried
Answers(queried, o1, o2) ==
    [i \in 1..Len(queried) |-> IF queried[i] = "variable_api" THEN o1 ELSE o2]

\* history of one evaluation: the field before, the sources queried and their
\* answers, the value returned, whether a failure reached the caller
BvEval(pre, e, o1, o2) ==
    [called |-> TRUE, pre |-> pre, queried |-> e.queried,
     answers |-> Answers(e.queried, o1, o2), ret |-> e.ret, raised |-> e.raised,
     cache |-> e.bv]
NoBvEval ==
    [called |-> FALSE, pre |-> None, queried |-> <<>>, answers |-> <<>>, ret |-> None,
     raised |-> FALSE, cache |-> None]

-----------------------------------------------------------------------------
(* usage.py:225-236  send_log_to_api *)

\* requests.post raises (no connection) or returns; the response is not examined
send_log_to_api(log_data, post_fails) ==
    [raised |-> post_fails, io |-> {"post"}]

-----------------------------------------------------------------------------
(* History *)

NoLast ==
    [op |-> "none", f |-> NoFunc, decorated |-> "none", outcome |-> NoOutcome,
     result |-> NoOutcome, built |-> FALSE, sent |-> FALSE, r |-> NoDraw,
     log_data |-> None, uid |-> NoUidEval, bv |-> NoBvEval, io |-> {}]

ZeroCompleted == [f \in Funcs |-> 0]

RECURSIVE SumOver(_, _)
SumOver(S, g) ==
    IF S = {} THEN 0
    ELSE LET x == CHOOSE y \in S : TRUE IN g[x] + SumOver(S \ {x}, g)

Keys == { _get_method_name(f) : f \in Funcs }
FuncsOf(k) == { f \in Funcs : _get_method_name(f) = k }
\* the dict after comp[f] wrapped calls of each function f
CountsAfter(comp) ==
    [k \in { j \in Keys : SumOver(FuncsOf(j), comp) > 0 } |-> SumOver(FuncsOf(k), comp)]

-----------------------------------------------------------------------------
(* usage.py:170-222  method_logger *)

method_logger_always_wraps(enabled) == "wrapper"

\* lines 171-172: what the decorator returns for func
method_logger(enabled) == IF ~enabled THEN "func" ELSE "wrapper"

\* lines 182-183: exception = str(e), for an Exception only
caught_exception(outcome) ==
    IF outcome.kind = "raise" /\ outcome.exc.base = "Exception"
    THEN PyStr(outcome.exc.msg)
    ELSE None

\* line 216
decides_to_send(exception, counts, m, r) ==
    Truthy(exception) \/ should_sample(counts, m, r)

\* lines 218-220: the handler of an error of the telemetry path re-raises it
telemetry_except(e) == e

\* what get_user_id() can do from here, over the uuids and the file system's answers
UserIdEvals ==
    { get_user_id(_user_id, user_id_file, uuid_hex, io_fails) :
        uuid_hex \in UUIDs, io_fails \in BOOLEAN }

\* what get_backend_version() can do from here, over the sources' answers
BackendVersionEvals ==
    { BvEval(_backend_version, get_backend_version(_backend_version, o1, o2), o1, o2) :
        o1 \in SourceOutcomes, o2 \in SourceOutcomes }

\* what line 200 can give the record and leave in the field: nothing, when line
\* 193 raised before it
BackendVersionResults(uid) ==
    IF uid.raised
    THEN { [raised |-> FALSE, ret |-> None, cache |-> _backend_version] }
    ELSE { [raised |-> e.raised, ret |-> e.ret, cache |-> e.cache] :
             e \in BackendVersionEvals }

\* the draws line 216 can make: none unless should_sample is asked and draws
DrawsAt(f, outcome, counts, uid, bv) ==
    IF ~uid.raised /\ ~bv.raised /\ ~Truthy(caught_exception(outcome))
       /\ draws_random(counts, f)
    THEN Draws
    ELSE {NoDraw}

\* what requests.post can do: nothing unless line 217 is reached
PostFailsAt(f, outcome, counts, uid, bv, r) ==
    IF ~uid.raised /\ ~bv.raised /\ decides_to_send(caught_exception(outcome), counts, f, r)
    THEN BOOLEAN
    ELSE {FALSE}

\* lines 186-220 after _method_counter.add(func): the rest of the finally block,
\* on the counter dict counts as line 211 finds it, with uid and bv the evaluations
\* of get_user_id() and get_backend_version(), r the draw of random.random() and
\* post_fails whether requests.post raises.
finally_rest(f, outcome, counts, uid, bv, r, post_fails) ==
    LET exception == caught_exception(outcome)
        built == ~uid.raised /\ ~bv.raised
        log_data ==
            [t |-> "log_data",
             user_id |-> uid.ret,
             backend_version |-> bv.ret,
             method_name |-> f.name,
             module_name |-> f.module,
             num_call |-> get_count(counts, f),
             last_error |-> IF Truthy(exception) THEN exception ELSE None]
        sent == built /\ decides_to_send(exception, counts, f, r)
        drawn == r # NoDraw
        send == send_log_to_api(log_data, post_fails)
        error == IF uid.raised THEN Exc("get_user_id", "Exception", "OSError")
                 ELSE IF bv.raised THEN Exc("get_backend_version", "Exception", "RestAPIError")
                 ELSE IF sent /\ send.raised
                 THEN Exc("send_log_to_api", "Exception", "ConnectionError")
                 ELSE None
        reraised == IF error = None THEN None ELSE telemetry_except(error)
    IN  /\ _user_id' = uid.uid
        /\ user_id_file' = uid.file
        /\ first_id' = IF first_id = None /\ "write" \in uid.io THEN uid.ret ELSE first_id
        /\ _backend_version' = bv.cache
        /\ completed' = [completed EXCEPT ![f] = @ + 1]
        /\ last' = [NoLast EXCEPT
                      !.op = "call", !.f = f, !.decorated = "wrapper",
                      !.outcome = outcome,
                      !.result = IF reraised = None THEN outcome ELSE Raise(reraised),
                      !.built = built, !.sent = sent,
                      !.r = IF drawn THEN r ELSE NoDraw,
                      !.log_data = IF built THEN log_data ELSE None,
                      !.io = uid.io \cup (IF sent THEN send.io ELSE {})]

ThreadsIdle ==
    UNCHANGED <<pc, tmp, tcall>>

\* A call of a function decorated while telemetry was enabled: wrapper, lines 175-220.
CallWrapped ==
    /\ steps < MaxCalls
    /\ method_logger(_is_enabled) = "wrapper"
    /\ \E f \in Funcs, outcome \in FuncOutcomes, uid \in UserIdEvals :
       \E bv \in BackendVersionResults(uid) :
       \E r \in DrawsAt(f, outcome, add(method_counts, f), uid, bv) :
       \E post_fails \in PostFailsAt(f, outcome, add(method_counts, f), uid, bv, r) :
          /\ method_counts' = add(method_counts, f)
          /\ finally_rest(f, outcome, add(method_counts, f), uid, bv, r, post_fails)
    /\ steps' = steps + 1
    /\ UNCHANGED _is_enabled
    /\ ThreadsIdle

\* A call of a function decorated while telemetry was disabled: func itself.
CallUndecorated ==
    /\ steps < MaxCalls
    /\ method_logger(_is_enabled) = "func"
    /\ \E f \in Funcs, outcome \in FuncOutcomes :
          last' = [NoLast EXCEPT !.op = "call", !.f = f, !.decorated = "func",
                                 !.outcome = outcome, !.result = outcome]
    /\ steps' = steps + 1
    /\ UNCHANGED <<_is_enabled, _user_id, _backend_version,
                   method_counts, user_id_file, completed, first_id>>
    /\ ThreadsIdle

\* _env_attr.get_user_id() called on its own
CallGetUserId ==
    /\ \E uid \in UserIdEvals :
          /\ _user_id' = uid.uid
          /\ user_id_file' = uid.file
          /\ first_id' = IF first_id = None /\ "write" \in uid.io THEN uid.ret ELSE first_id
          /\ last' = [NoLast EXCEPT !.op = "get_user_id",
                                    !.uid = UidEval(_user_id, user_id_file, uid),
                                    !.io = uid.io]
    /\ UNCHANGED <<_is_enabled, _backend_version, method_counts,
                   completed, steps>>
    /\ ThreadsIdle

\* _env_attr.get_backend_version() called on its own
CallGetBackendVersion ==
    /\ \E bv \in BackendVersionEvals :
          /\ _backend_version' = bv.cache
          /\ last' = [NoLast EXCEPT !.op = "get_backend_version", !.bv = bv]
    /\ UNCHANGED <<_is_enabled, _user_id, method_counts, user_id_file,
                   completed, first_id, steps>>
    /\ ThreadsIdle

\* usage.py:139-143 (the hostname it stores only labels the records)
init_usage ==
    /\ _user_id' = None
    /\ _backend_version' = None
    /\ method_counts' = NewMethodCounts
    /\ completed' = ZeroCompleted
    /\ last' = [NoLast EXCEPT !.op = "init_usage"]
    /\ UNCHANGED <<_is_enabled, user_id_file, first_id, steps>>
    /\ ThreadsIdle

\* usage.py:127-136: a new process, in the same environment, imports the module;
\* the file on disk stays
Import ==
    /\ _user_id' = None
    /\ _backend_version' = None
    /\ method_counts' = NewMethodCounts
    /\ completed' = ZeroCompleted
    /\ last' = [NoLast EXCEPT !.op = "import"]
    /\ UNCHANGED <<_is_enabled, user_id_file, first_id, steps>>
    /\ ThreadsIdle

IdleThreads ==
    /\ pc = [t \in Threads |-> "idle"]
    /\ tmp = [t \in Threads |-> 0]
    /\ tcall = [t \in Threads |-> NoFunc]

\* A process that imported the module and, with telemetry enabled, has completed n
\* wrapped calls of each function whose telemetry failed at the user id file.
Init ==
    /\ \E value \in EnvValues : _is_enabled = is_enabled_from(value)
    /\ _user_id = None
    /\ _backend_version = None
    /\ \E n \in StartCounts :
          /\ (~_is_enabled => n = 0)
          /\ completed = [f \in Funcs |-> n]
          /\ method_counts = CountsAfter(completed)
    /\ user_id_file = NoFile
    /\ first_id = None
    /\ last = NoLast
    /\ steps = 0
    /\ IdleThreads

Next ==
    \/ CallWrapped
    \/ CallUndecorated
    \/ CallGetUserId
    \/ CallGetBackendVersion
    \/ init_usage
    \/ Import

Spec == Init /\ [][Next]_vars

-----------------------------------------------------------------------------
(* Two threads in wrapper at once.  Line 106 reads the count and stores it     *)
(* plus one as two steps, and another thread may run between them.             *)

\* lines 176-184: func runs and the finally block is entered (what func did is
\* first looked at in line 213, and is drawn there)
TBegin(t) ==
    /\ pc[t] = "idle"
    /\ steps < MaxConcCalls
    /\ method_logger(_is_enabled) = "wrapper"
    /\ \E f \in Funcs : tcall' = [tcall EXCEPT ![t] = f]
    /\ pc' = [pc EXCEPT ![t] = "add_read"]
    /\ steps' = steps + 1
    /\ UNCHANGED <<_is_enabled, _user_id, _backend_version, method_counts, user_id_file,
                   completed, first_id, last, tmp>>

\* line 106: self.method_counts.get(s, 0)
TAddRead(t) ==
    /\ pc[t] = "add_read"
    /\ tmp' = [tmp EXCEPT ![t] = add_read(method_counts, tcall[t])]
    /\ pc' = [pc EXCEPT ![t] = "add_write"]
    /\ UNCHANGED <<_is_enabled, _user_id, _backend_version, method_counts, user_id_file,
                   completed, first_id, last, steps, tcall>>

\* line 106: self.method_counts[s] = ... + 1
TAddWrite(t) ==
    /\ pc[t] = "add_write"
    /\ method_counts' = add_write(method_counts, tcall[t], tmp[t])
    /\ pc' = [pc EXCEPT ![t] = "rest"]
    /\ UNCHANGED <<_is_enabled, _user_id, _backend_version, user_id_file, completed,
                   first_id, last, steps, tmp, tcall>>

\* lines 191-220
TRest(t) ==
    /\ pc[t] = "rest"
    /\ \E outcome \in FuncOutcomes, uid \in UserIdEvals :
       \E bv \in BackendVersionResults(uid) :
       \E r \in DrawsAt(tcall[t], outcome, method_counts, uid, bv) :
       \E post_fails \in PostFailsAt(tcall[t], outcome, method_counts, uid, bv, r) :
          finally_rest(tcall[t], outcome, method_counts, uid, bv, r, post_fails)
    /\ pc' = [pc EXCEPT ![t] = "idle"]
    /\ tmp' = [tmp EXCEPT ![t] = 0]
    /\ tcall' = [tcall EXCEPT ![t] = NoFunc]
    /\ UNCHANGED <<_is_enabled, method_counts, steps>>

\* A process that imported the module with telemetry enabled and has called nothing.
InitConc ==
    /\ _is_enabled = is_enabled_from(None)
    /\ _user_id = None
    /\ _backend_version = None
    /\ completed = ZeroCompleted
    /\ method_counts = NewMethodCounts
    /\ user_id_file = NoFile
    /\ first_id = None
    /\ last = NoLast
    /\ steps = 0
    /\ IdleThreads

NextConc ==
    \E t \in Threads :
        \/ TBegin(t)
        \/ TAddRead(t)
        \/ TAddWrite(t)
        \/ TRest(t)

SpecConc == InitConc /\ [][NextConc]_vars

-----------------------------------------------------------------------------
(* Properties *)

WrappedCall == last.op = "call" /\ last.decorated = "wrapper"
FuncRaisedException == last.outcome.kind = "raise" /\ last.outcome.exc.base = "Exception"

\* C1: a wrapped call whose function raised an Exception has its record sent
\* (send_log_to_api invoked), whatever the call count, the draw and the exception's
\* message; stated for the calls that got as far as line 216 with their record.
C1_RaisedCallIsSent ==
    (WrappedCall /\ FuncRaisedException /\ last.built) => last.sent

\* C2: when the wrapped function returned v the caller of wrapper receives v,
\* whether or not the telemetry path failed.
C2_TelemetryErrorsSwallowed ==
    (WrappedCall /\ last.outcome.kind = "return") => last.result = last.outcome

\* C3: when the wrapped function raised e the caller of wrapper receives that same
\* e, whether or not the telemetry path failed.
C3_FuncExceptionReraised ==
    (WrappedCall /\ last.outcome.kind = "raise") => last.result = last.outcome

\* C4: for a wrapped call that returned and whose record was assembled, with c the
\* method's count after this call's increment (the record's num_call) and r the
\* draw: c < 100: sent without a draw; 100 <= c < 1000: sent iff r < 1/10;
\* 1000 <= c < 10000: sent iff r < 1/100; c >= 10000: sent iff r < 1/1000.
C4_SamplingPolicy ==
    (WrappedCall /\ last.outcome.kind = "return" /\ last.built) =>
        LET c == last.log_data.num_call
            r == last.r
        IN  /\ c = dict_get(method_counts, last.f.module \o last.f.name)
            /\ c >= 1
            /\ (c < 100 => last.sent /\ r = NoDraw)
            /\ (c >= 100 => r \in Draws)
            /\ (100 <= c /\ c < 1000 => (last.sent <=> 10 * r.num < r.den))
            /\ (1000 <= c /\ c < 10000 => (last.sent <=> 100 * r.num < r.den))
            /\ (c >= 10000 => (last.sent <=> 1000 * r.num < r.den))

\* C4's case: the 100th call of a method is the first that can go unsent
C4_Witness ==
    /\ WrappedCall /\ last.outcome.kind = "return" /\ last.built
    /\ last.log_data.num_call = 100
    /\ last.r = [num |-> 1, den |-> 10]
    /\ ~last.sent

\* C5: with telemetry disabled the decorator returns func itself: a call of the
\* decorated function gives the caller what func did, makes no request, changes no
\* counter, touches neither the user id file nor a cached field.
C5_DisabledIsNoOp ==
    [][(~_is_enabled /\ steps' = steps + 1) =>
         /\ last'.op = "call" /\ last'.decorated = "func"
         /\ last'.result = last'.outcome
         /\ last'.io = {} /\ ~last'.sent
         /\ UNCHANGED <<method_counts, user_id_file, _user_id, _backend_version>>]_vars

C5_Witness ==
    /\ ~_is_enabled
    /\ last.op = "call" /\ last.outcome.kind = "raise"
    /\ steps = MaxCalls

\* C6: once the user id file exists no step writes it: its contents stay those
\* first written.
C6_FileNeverOverwritten ==
    [][exists(user_id_file) =>
         /\ user_id_file' = user_id_file
         /\ "write" \notin last'.io
         /\ first_id' = PyStr(user_id_file'.v)]_vars

\* C6's case: a fresh EnvironmentAttribute found the file and read it back
C6_Witness ==
    /\ last.op = "get_user_id" /\ last.uid.called /\ ~last.uid.raised
    /\ last.uid.pre_uid = None
    /\ exists(last.uid.pre_file)
    /\ user_id_file = last.uid.pre_file
    /\ "read" \in last.io

\* C7: a get_user_id call that returns, alone or for a record, returns the
\* 16-character id first written to the file, which the file holds: the call that
\* found no file generated and stored it, every later one returns it, from the
\* cached field or read back by a fresh EnvironmentAttribute.
C7_UserIdStable ==
    /\ (last.op = "get_user_id" /\ ~last.uid.raised) =>
          /\ last.uid.ret.t = "str" /\ Len(last.uid.ret.v) = 16
          /\ \E u \in UUIDs : \A i \in 1..16 : last.uid.ret.v[i] = u[i]
          /\ last.uid.ret = first_id
          /\ user_id_file = File(last.uid.ret.v)
          /\ _user_id = last.uid.ret
          /\ (Truthy(last.uid.pre_uid) => last.uid.ret = last.uid.pre_uid)
          /\ (exists(last.uid.pre_file) => user_id_file = last.uid.pre_file)
    /\ (WrappedCall /\ last.built) =>
          /\ last.log_data.user_id = first_id
          /\ Len(last.log_data.user_id.v) = 16
          /\ user_id_file = File(first_id.v)

\* C7's case: after the id was generated, the other uuid notwithstanding, a fresh
\* EnvironmentAttribute returns the stored id
C7_Witness ==
    /\ last.op = "get_user_id" /\ ~last.uid.raised
    /\ last.uid.pre_uid = None /\ exists(last.uid.pre_file)
    /\ last.uid.ret = first_id
    /\ Len(first_id.v) = 16

\* C8: get_backend_version never raises; with the field set it queries nothing and
\* returns the field; with the field unset it queries variable_api, and
\* hsfs_variable_api only if variable_api failed; the first answer is returned and
\* cached; with both failed it returns None and the field stays unset.
C8_BackendVersionLookup ==
    /\ last.op = "get_backend_version" =>
        LET e == last.bv IN
        /\ e.called /\ ~e.raised
        /\ (e.pre # None =>
              e.queried = <<>> /\ e.ret = e.pre /\ _backend_version = e.pre)
        /\ (e.pre = None =>
              /\ Len(e.queried) >= 1 /\ e.queried[1] = "variable_api"
              /\ (e.answers[1] # SourceFails =>
                    /\ Len(e.queried) = 1
                    /\ e.ret = e.answers[1] /\ _backend_version = e.answers[1])
              /\ (e.answers[1] = SourceFails =>
                    /\ Len(e.queried) = 2 /\ e.queried[2] = "hsfs_variable_api"
                    /\ (e.answers[2] # SourceFails =>
                          e.ret = e.answers[2] /\ _backend_version = e.answers[2])
                    /\ (e.answers[2] = SourceFails =>
                          e.ret = None /\ _backend_version = None)))
    /\ (WrappedCall /\ last.built) => last.log_data.backend_version = _backend_version

\* C8's case: both sources failed, nothing was cached
C8_Witness ==
    /\ last.op = "get_backend_version"
    /\ last.bv.pre = None
    /\ last.bv.answers = <<SourceFails, SourceFails>>
    /\ _backend_version = None

\* a step that completes a wrapped call of f
Completes(f) == completed'[f] = completed[f] + 1

\* C9 as stated: a completed wrapped call of f adds one to f's counter, leaves the
\* counter of every other method as it was, and the record of f's k-th call since
\* the last init carries num_call = k; init_usage empties the counters.
C9_CounterPerMethod ==
    [][/\ \A f \in Funcs : Completes(f) =>
             /\ get_count(method_counts', f) = get_count(method_counts, f) + 1
             /\ \A g \in Funcs \ {f} :
                   get_count(method_counts', g) = get_count(method_counts, g)
             /\ (last'.built => last'.log_data.num_call = completed'[f])
       /\ (last'.op = "init_usage" => \A f \in Funcs : get_count(method_counts', f) = 0)
      ]_vars

\* C9 amended: counters are kept per key, module name followed by method name. A
\* completed wrapped call of f adds one to the counter under f's key and leaves the
\* counter under every other key as it was; the record carries the number of calls
\* completed since the last init by the methods that share f's key; init_usage
\* empties the counters.
C9_CounterPerKey ==
    [][/\ \A f \in Funcs : Completes(f) =>
             LET k == f.module \o f.name IN
             /\ dict_get(method_counts', k) = dict_get(method_counts, k) + 1
             /\ \A j \in (DOMAIN method_counts \cup DOMAIN method_counts') \ {k} :
                   dict_get(method_counts', j) = dict_get(method_counts, j)
             /\ (last'.built =>
                   last'.log_data.num_call =
                      SumOver({g \in Funcs : g.module \o g.name = k}, completed'))
       /\ (last'.op = "init_usage" => DOMAIN method_counts' = {})
      ]_vars

\* C9's case: a call of one method counted the calls of another of the same name
C9_Witness ==
    /\ WrappedCall /\ last.built
    /\ last.f.qualname = "Job.run"
    /\ \E g \in Funcs : g.qualname = "Execution.run" /\ completed[g] > 0
    /\ last.log_data.num_call > completed[last.f]

\* the calls, finished or not, whose store of line 106 under key k is done
Stored(k) ==
    SumOver({f \in Funcs : f.module \o f.name = k}, completed)
    + Cardinality({t \in Threads : pc[t] = "rest" /\ tcall[t].module \o tcall[t].name = k})

\* C10: with threads interleaving between the read and the store of line 106 the
\* counter under a key never exceeds the stores made under it and is at least 1
\* once one is made; it can fall short (the witness): an increment is lost.
C10_CounterNeverAhead ==
    \A k \in Keys :
        /\ dict_get(method_counts, k) <= Stored(k)
        /\ (Stored(k) > 0 => dict_get(method_counts, k) >= 1)

\* C10's case: both calls of one method have completed and the counter is 1
C10_LostIncrement ==
    /\ \A t \in Threads : pc[t] = "idle"
    /\ \E f \in Funcs :
          /\ completed[f] = 2
          /\ dict_get(method_counts, f.module \o f.name) = 1

====
